---- MODULE Spec2Model ----
(***************************************************************************)
(* Model of isucon-restruct (src/bin/isucon-restruct.rs): a monolithic     *)
(* main.rs is parsed, its items are classified into Fragments, same-named  *)
(* Model fragments are merged, a Module tree is built and written to disk. *)
(*                                                                         *)
(* Text is a sequence of characters; a character is "n" (line break, one   *)
(* byte), "e2" (a two-byte scalar) or any other one-byte character.        *)
(* A position is a character boundary (number of characters before it).    *)
(* A String built by the program is a sequence of pieces:                  *)
(*   src  - the byte slice input[a..b]                                     *)
(*   tok  - to_token_stream() of the syntax node spanning bytes a..b       *)
(*          (s names the node: item, item_pub, sig, vis, attrs, stmt)      *)
(*   lit  - the literal text s                                             *)
(*   pubmod / mod - the line "pub mod s; pub use self::s::*;" / "mod s;"   *)
(***************************************************************************)
EXTENDS Integers, Sequences, FiniteSets, TLC

VARIABLES
    pc,             \* position of the run: start, parse, write, exit_ok, exit_err, ...
    input,          \* [text, items, valid]: src/main.rs and what syn::parse_file makes of it
    exists,         \* entry_point_path.exists()
    current_offset, \* ParseContext.current_offset
    prev_offset,    \* current_offset before the last ParseContext call
    calls,          \* the ParseContext calls of the classifier, in order
    ci,             \* index of the next ParseContext call
    panicked,       \* a slice with start > end was requested
    fragments,      \* Vec<Fragment> of the outermost level
    deduped,        \* dedup_fragments() of the outermost level
    modules,        \* Code.modules
    ops,            \* filesystem operations of Code::write, in order
    oi,             \* index of the next filesystem operation
    fs,             \* files: path -> content
    dirs,           \* directories created
    attempts,       \* filesystem write/mkdir operations attempted
    failedAt,       \* index of the operation that failed, 0 if none
    reads,          \* fs::read_to_string calls made
    stderr          \* lines printed to standard error

vars == <<pc, input, exists, current_offset, prev_offset, calls, ci, panicked,
          fragments, deduped, modules, ops, oi, fs, dirs, attempts, failedAt, reads, stderr>>

\* ------------------------------------------------------------------ bounds

MaxItems == 2
MaxStmts == 2
MaxDepth == 2
MaxFrags == 3

\* ------------------------------------------------------------ characters

\* F applied to the value of v (v is evaluated once)
Let(v, F(_)) == CHOOSE r \in { F(x) : x \in {v} } : TRUE

len_utf8(c) == IF c = "e2" THEN 2 ELSE 1

\* the bytes of characters i..j of s
RECURSIVE SumLen(_, _, _)
SumLen(s, i, j) ==
    IF i > j \/ i > Len(s) THEN 0 ELSE len_utf8(s[i]) + SumLen(s, i + 1, j)

ByteLen(s) == SumLen(s, 1, Len(s))

\* the index of the first line break at or after character i (Len + 1 if none)
RECURSIVE NLIndex(_, _)
NLIndex(s, i) ==
    IF i > Len(s) THEN i ELSE IF s[i] = "n" THEN i ELSE NLIndex(s, i + 1)

\* str::contains on input[a..b]: character c starts at a byte in a..b-1;
\* i is the character looked at and bytes the bytes before it
RECURSIVE SliceHas(_, _, _, _, _, _)
SliceHas(text, i, bytes, a, b, c) ==
    IF i > Len(text) \/ bytes >= b THEN FALSE
    ELSE IF bytes >= a /\ text[i] = c THEN TRUE
    ELSE SliceHas(text, i + 1, bytes + len_utf8(text[i]), a, b, c)

\* ------------------------------------------------------------ Span Mapper

\* proc_macro2's LineColumn of character boundary p: 1-based line, 0-based
\* column counted in characters
SpanLC(text, p) ==
    LET nls == {i \in 1..p : text[i] = "n"}
        last == IF nls = {} THEN 0 ELSE CHOOSE i \in nls : \A j \in nls : j <= i
    IN [line |-> 1 + Cardinality(nls), column |-> p - last]

\* the loop of byte_offset, tabulated: LineStarts(text, <<>>, ...)[k] is the
\* byte offset the loop reaches after k - 1 iterations, with the number of
\* characters before it; `at` is the start of the line being added
RECURSIVE LineStarts(_, _, _)
LineStarts(text, acc, at) ==
    Let(<<Append(acc, at), NLIndex(text, at.chars + 1)>>, LAMBDA v :
      IF v[2] > Len(text) THEN v[1]
      ELSE \* offset += input[offset..].find('\n').unwrap() + 1
           LineStarts(text, v[1],
                      [offset |-> at.offset + SumLen(text, at.chars + 1, v[2] - 1) + 1,
                       chars  |-> v[2]]))

\* file is [text, lines, ...] with lines = LineStarts of text
byte_offset(file, location) ==
    Let(file.lines[location.line], LAMBDA at :
      at.offset + SumLen(file.text, at.chars + 1, at.chars + location.column))

\* ------------------------------------------------- source programs (inputs)

\* A declaration as written: kind is the syn::Item variant, ident the
\* identifier (for Impl the self type), nstmts the statements of a function
\* body, marker where an HTTP marker ("G") occurs, inline/body an inline
\* namespace body.
Decl(kind, ident, nstmts, marker, inline, body) ==
    [kind |-> kind, ident |-> ident, nstmts |-> nstmts, marker |-> marker,
     inline |-> inline, body |-> body]

Leaf(kind, ident) == Decl(kind, ident, 0, "no", FALSE, <<>>)
FnDecl(ident, nstmts, marker) == Decl("Fn", ident, nstmts, marker, FALSE, <<>>)
ModInline(ident, body) == Decl("Mod", ident, 0, "no", TRUE, body)

\* trivia written before a declaration
Trivia(d) ==
    CASE d.kind = "Fn" ->
           IF d.marker = "comment" THEN <<"/", "/", "G", "n">> ELSE <<"/", "/", "e2", "n">>
      [] d.kind \in {"Struct", "Mod"} -> <<"n">>
      [] d.kind = "Use" -> <<>>
      [] OTHER -> <<" ">>

\* trivia written before statement j of a function body
StmtTrivia(j) == IF j % 2 = 1 THEN <<"n", "/", "/", "e2", "n">> ELSE <<" ">>
StmtText == <<"s", "e2", ";">>

RECURSIVE LayoutStmts(_, _, _, _)
LayoutStmts(j, n, pos, acc) ==
    IF j > n THEN acc
    ELSE Let(<<pos + Len(StmtTrivia(j)), acc>>, LAMBDA v :
           LET start == v[1]
               end   == start + Len(StmtText)
           IN LayoutStmts(j + 1, n, end,
                [text  |-> v[2].text \o StmtTrivia(j) \o StmtText,
                 stmts |-> Append(v[2].stmts, [start |-> start, end |-> end])]))

\* the syntax node syn::parse_file yields for a declaration, with its spans
Node(d, start, end, open, stmts, items) ==
    [kind |-> d.kind, ident |-> d.ident, vis |-> "inherited", start |-> start,
     end |-> end, open |-> open, stmts |-> stmts, inline |-> d.inline, items |-> items]

RECURSIVE LayoutItems(_, _, _, _)
LayoutItems(decls, i, pos, acc) ==
    IF i > Len(decls) THEN acc
    ELSE Let(<<decls[i], pos + Len(Trivia(decls[i])), acc>>, LAMBDA v :
      LET d     == v[1]
          start == v[2]
          one ==
            CASE d.kind = "Fn" ->
                   LET hdr  == <<"f", IF d.marker = "sig" THEN "G" ELSE "a", "{">>
                       open == start + Len(hdr)
                   IN Let(LayoutStmts(1, d.nstmts, open, [text |-> <<>>, stmts |-> <<>>]),
                          LAMBDA body :
                            [text |-> hdr \o body.text \o <<"n", "}">>,
                             node |-> Node(d, start, open + Len(body.text) + 2, open,
                                           body.stmts, <<>>)])
              [] d.kind = "Mod" /\ d.inline ->
                   LET hdr  == <<"m", "{">>
                       open == start + Len(hdr)
                   IN Let(LayoutItems(d.body, 1, open, [text |-> <<>>, items |-> <<>>]),
                          LAMBDA body :
                            [text |-> hdr \o body.text \o <<"n", "}">>,
                             node |-> Node(d, start, open + Len(body.text) + 2, open,
                                           <<>>, body.items)])
              [] OTHER ->
                   LET txt == <<"d", "e2", ";">>
                   IN [text |-> txt,
                       node |-> Node(d, start, start + Len(txt), start, <<>>, <<>>)]
      IN Let(one, LAMBDA o :
           LayoutItems(decls, i + 1, start + Len(o.text),
              [text  |-> v[3].text \o Trivia(d) \o o.text,
               items |-> Append(v[3].items, o.node)])))

Program(decls, valid) ==
    LET l == LayoutItems(decls, 1, 0, [text |-> <<>>, items |-> <<>>])
    IN Let(l.text \o <<"n">>, LAMBDA text :
         [text |-> text, lines |-> LineStarts(text, <<>>, [offset |-> 0, chars |-> 0]),
          items |-> l.items, valid |-> valid])

\* heck::ToSnakeCase on the identifiers used
to_snake_case(ident) ==
    CASE ident = "User" -> "user"
      [] ident = "user" -> "user"
      [] ident = "Role" -> "role"
      [] ident = "UserRole" -> "user_role"
      [] OTHER -> ident

LeafDecls ==
    { FnDecl("main", MaxStmts, "no"), FnDecl("f", MaxStmts, "no"), FnDecl("f", 0, "sig"),
      Leaf("Struct", "User"), Leaf("Impl", "User"), Leaf("Enum", "Role"),
      Leaf("Const", "K"), Leaf("Use", ""), Leaf("Macro", ""), Leaf("Mod", "m") }

FlatBodies ==
    { <<>>, <<Leaf("Struct", "User"), Leaf("Impl", "User")>>,
      <<FnDecl("main", 1, "no"), FnDecl("f", 0, "no")>>,
      <<Leaf("Const", "K"), FnDecl("f", 1, "no")>> }

RECURSIVE Bodies(_)
Bodies(d) ==
    IF d <= 0 THEN FlatBodies
    ELSE FlatBodies \cup { <<Leaf("Use", ""), ModInline("n", b)>> : b \in Bodies(d - 1) }

RECURSIVE SeqsUpTo(_, _)
SeqsUpTo(S, n) ==
    IF n <= 0 THEN { <<>> }
    ELSE Let(SeqsUpTo(S, n - 1), LAMBDA shorter :
           shorter \cup { Append(s, x) : s \in {t \in shorter : Len(t) = n - 1}, x \in S })

\* one program holding every kind of declaration once
Sampler ==
    << Leaf("Use", ""), Leaf("Other", ""), FnDecl("g", 1, "comment"), Leaf("Static", "S"),
       Leaf("Enum", "Role"),
       Leaf("Trait", "UserRole"), Leaf("TraitAlias", "user"), Leaf("Type", "User"),
       Leaf("Union", "Role"), Leaf("Macro", "") >>

\* the declarations around an inline namespace at the outermost level
Lead == { <<>> } \cup { <<d>> : d \in LeafDecls }
Trail == { <<>>, <<FnDecl("main", MaxStmts, "no")>>, <<Leaf("Struct", "User")>> }

FlatPrograms == SeqsUpTo(LeafDecls, MaxItems) \ { <<>> }

NestedPrograms ==
    { lead \o <<ModInline("m", b)>> \o trail :
        lead \in Lead, trail \in Trail, b \in Bodies(MaxDepth - 1) }

Programs ==
    { Program(ds, TRUE) : ds \in FlatPrograms \cup NestedPrograms \cup {Sampler} }

\* ---------------------------------------------------------------- strings

Src(a, b) == [k |-> "src", s |-> "", a |-> a, b |-> b]
Tok(s, a, b) == [k |-> "tok", s |-> s, a |-> a, b |-> b]
Lit(s) == [k |-> "lit", s |-> s, a |-> 0, b |-> 0]
PubMod(name) == [k |-> "pubmod", s |-> name, a |-> 0, b |-> 0]
BareMod(name) == [k |-> "mod", s |-> name, a |-> 0, b |-> 0]

\* Itertools::join(sep) of a sequence of strings
RECURSIVE Join(_, _)
Join(strs, sep) ==
    IF strs = <<>> THEN <<>>
    ELSE IF Len(strs) = 1 THEN strs[1]
    ELSE strs[1] \o sep \o Join(Tail(strs), sep)

Range(s) == { s[i] : i \in DOMAIN s }

\* str::contains of one of the marker substrings: the marker is the character "G"
ContainsMarker(file, content) ==
    \E i \in DOMAIN content :
        /\ content[i].k \in {"src", "tok"}
        /\ SliceHas(file.text, 1, 0, content[i].a, content[i].b, "G")

\* ---------------------------------------------------------- Parse Context

\* ctx is [cur, calls, panicked]; calls records every ParseContext call made
update_offset(ctx, offset) ==
    [ctx EXCEPT !.cur = offset,
                !.calls = Append(@, [op |-> "update_offset", offset |-> offset])]

\* the String text_between returns (a slice with start > end panics)
text_between(ctx, offset) ==
    IF ctx.cur < offset THEN <<Src(ctx.cur, offset)>> ELSE <<>>

\* ctx after a text_between call
sliced(ctx, offset) ==
    [ctx EXCEPT !.calls = Append(@, [op |-> "text_between", offset |-> offset]),
                !.panicked = @ \/ ctx.cur > offset]

SpanStart(file, node) == byte_offset(file, SpanLC(file.text, node.start))
SpanEnd(file, node) == byte_offset(file, SpanLC(file.text, node.end))
BraceOpenEnd(file, node) == byte_offset(file, SpanLC(file.text, node.open))

\* ----------------------------------------------------- Fragment Classifier

Frag(kind, name, content) ==
    [kind |-> kind, name |-> name, content |-> content, some |-> FALSE, fragments |-> <<>>]
FragMod(name, some, frs) ==
    [kind |-> "Mod", name |-> name, content |-> <<>>, some |-> some, fragments |-> frs]

Public(item) == [item EXCEPT !.vis = "pub"]
VisTokens(item) == IF item.vis = "pub" THEN <<Lit("pub")>> ELSE <<>>
ItemTokens(file, item) ==
    <<Tok(IF item.vis = "pub" THEN "item_pub" ELSE "item",
          SpanStart(file, item), SpanEnd(file, item))>>

\* the statement loop of parse_fn_code; acc is [code, ctx]
RECURSIVE FnStmts(_, _, _, _)
FnStmts(file, stmts, j, acc0) ==
    Let(acc0, LAMBDA acc :
      IF j > Len(stmts) \/ acc.ctx.panicked THEN acc
      ELSE Let(<<SpanStart(file, stmts[j]), SpanEnd(file, stmts[j])>>, LAMBDA span :
             LET offset  == span[1]
                 comment == text_between(acc.ctx, offset)
                 ctx1    == sliced(acc.ctx, offset)
                 tokens  == <<Tok("stmt", offset, span[2])>>
             IN FnStmts(file, stmts, j + 1,
                    [code |-> acc.code \o comment \o tokens,
                     ctx  |-> update_offset(ctx1, span[2])])))

FnHead(file, item) ==
    <<Lit(" ")>> \o VisTokens(item) \o <<Lit(" ")>>
      \o <<Tok("sig", SpanStart(file, item), BraceOpenEnd(file, item) - 1)>>
      \o <<Lit(" "), Lit("{")>>

\* parse_fn_code without the statement walk: the block is serialised whole
parse_fn_code_whole(file, ctx, item) ==
    [code |-> FnHead(file, item)
                \o (IF item.stmts = <<>> THEN <<>>
                    ELSE <<Tok("stmts", SpanStart(file, item.stmts[1]),
                               SpanEnd(file, item.stmts[Len(item.stmts)]))>>)
                \o <<Lit("}")>>,
     ctx |-> ctx]

parse_fn_code(file, ctx, item) ==
    Let(FnStmts(file, item.stmts, 1,
                [code |-> FnHead(file, item),
                 ctx  |-> update_offset(ctx, BraceOpenEnd(file, item))]),
        LAMBDA r : [code |-> r.code \o <<Lit("}")>>, ctx |-> r.ctx])

\* the offset the cursor is set to after an item (a bug: its start)
ItemEndOffset_start(file, item) == SpanStart(file, item)

ItemEndOffset(file, item) == SpanEnd(file, item)

ModelKinds == {"Struct", "Enum", "Trait", "TraitAlias", "Type", "Union"}

\* Vec<Fragment>::_parse; st is [fragments, ctx]
RECURSIVE ParseItems(_, _, _, _)
ParseItems(file, items, i, st0) ==
  Let(st0, LAMBDA st :
    IF i > Len(items) \/ st.ctx.panicked THEN st
    ELSE Let(<<items[i], SpanStart(file, items[i])>>, LAMBDA v :
      LET item    == v[1]
          offset  == v[2]
          comment == text_between(st.ctx, offset)
          ctx1    == sliced(st.ctx, offset)
          one ==
            CASE item.kind = "Fn" ->
                   IF item.ident = "main"
                   THEN Let(parse_fn_code(file, ctx1, item), LAMBDA f :
                          [frag |-> Frag("EntryPoint", "", comment \o f.code), ctx |-> f.ctx])
                   ELSE Let(parse_fn_code(file, ctx1, Public(item)), LAMBDA f :
                          LET content == comment \o f.code
                          IN [frag |-> Frag(IF ContainsMarker(file, content)
                                            THEN "ApiResource" ELSE "Function",
                                            item.ident, content),
                              ctx |-> f.ctx])
              [] item.kind \in ModelKinds ->
                   [frag |-> Frag("Model", to_snake_case(item.ident),
                                  comment \o ItemTokens(file, Public(item))),
                    ctx |-> ctx1]
              [] item.kind = "Impl" ->
                   [frag |-> Frag("Model", to_snake_case(item.ident),
                                  comment \o ItemTokens(file, item)),
                    ctx |-> ctx1]
              [] item.kind \in {"Const", "Static"} ->
                   [frag |-> Frag("Const", "", comment \o ItemTokens(file, Public(item))),
                    ctx |-> ctx1]
              [] item.kind = "Use" ->
                   [frag |-> Frag("Use", "", comment \o ItemTokens(file, item)), ctx |-> ctx1]
              [] item.kind = "Mod" ->
                   IF item.inline
                   THEN Let(ParseItems(file, item.items, 1,
                                     [fragments |-> <<>>,
                                      ctx |-> update_offset(ctx1, BraceOpenEnd(file, item))]),
                            LAMBDA sub :
                              [frag |-> FragMod(to_snake_case(item.ident), TRUE, sub.fragments),
                               ctx |-> sub.ctx])
                   ELSE [frag |-> FragMod(to_snake_case(item.ident), FALSE, <<>>),
                         ctx |-> ctx1]
              [] OTHER ->
                   [frag |-> Frag("Common", "", comment \o ItemTokens(file, item)), ctx |-> ctx1]
      IN Let(one, LAMBDA r :
           IF r.ctx.panicked
           THEN [fragments |-> st.fragments, ctx |-> r.ctx]
           ELSE ParseItems(file, items, i + 1,
                  [fragments |-> Append(st.fragments, r.frag),
                   ctx |-> update_offset(r.ctx, ItemEndOffset(file, item))]))))

\* Vec<Fragment>::parse
Fragments_parse(in) ==
    ParseItems(in, in.items, 1,
        [fragments |-> <<>>, ctx |-> [cur |-> 0, calls |-> <<>>, panicked |-> FALSE]])

\* ------------------------------------------------------------ Deduplicator

\* the Model fragments named n, in the order they were pushed
ModelsNamed(frs, n) == SelectSeq(frs, LAMBDA f : f.kind = "Model" /\ f.name = n)

Contents(frs) == [i \in 1..Len(frs) |-> frs[i].content]

\* the merge of a group: its contents joined (a bug: the first content only)
MergeGroup_first(v) == v[1].content

MergeGroup(v) == Join(Contents(v), <<Lit("\n")>>)

\* dedup_fragments that leaves the fragments as they are
dedup_fragments_none(frs, order) == frs

\* `order` is the iteration order of the HashMap: a sequence of names
dedup_fragments(frs, order) ==
    LET rest == SelectSeq(frs, LAMBDA f : f.kind # "Model")
        keys == SelectSeq(order, LAMBDA n : ModelsNamed(frs, n) # <<>>)
        models == [i \in 1..Len(keys) |->
                      Frag("Model", keys[i], MergeGroup(ModelsNamed(frs, keys[i])))]
    IN rest \o models

\* ----------------------------------------------------- Module Tree Builder

Lib(name, content, mods) ==
    [kind |-> "Lib", name |-> name, content |-> content, modules |-> mods]
EntryPoint(content) ==
    [kind |-> "EntryPoint", name |-> "", content |-> content, modules |-> <<>>]

mod_text(mods) ==
    Join([i \in 1..Len(mods) |->
            IF mods[i].kind = "Lib" THEN <<PubMod(mods[i].name)>> ELSE <<>>],
         <<Lit("\n")>>)

OfKind(frs, kind) == SelectSeq(frs, LAMBDA f : f.kind = kind)

\* format!("{}\nuse crate::*;", use_text)
LibUseText(use_text) == use_text \o <<Lit("\nuse crate::*;")>>

\* a leaf module's content (a bug: the import block without `use crate::*;`)
LeafContent_use_only(use_text, content) == use_text \o content

LeafContent(use_text, content) == LibUseText(use_text) \o content

LeafModules(use_text, frs) ==
    [i \in 1..Len(frs) |-> Lib(frs[i].name, LeafContent(use_text, frs[i].content), <<>>)]

\* res.push(entry_point): at every depth
WithEntryPoint(res, entry_point, depth) == Append(res, entry_point)

\* Vec<Module>::parse; hash[d] is the HashMap iteration order at depth d
RECURSIVE Modules_parse(_, _, _)
Modules_parse(frs0, hash, depth) ==
  Let(dedup_fragments(frs0, hash[depth]), LAMBDA frs :
  Let(Join(Contents(OfKind(frs, "Use")), <<Lit("\n")>>), LAMBDA use_text :
    LET
        fmods    == LeafModules(use_text, OfKind(frs, "Function"))
        functions     == Lib("functions", mod_text(fmods), fmods)
        amods    == LeafModules(use_text, OfKind(frs, "ApiResource"))
        api_resources == Lib("resources", mod_text(amods), amods)
        mmods    == LeafModules(use_text, OfKind(frs, "Model"))
        models        == Lib("models", mod_text(mmods), mmods)
        consts   == Lib("consts",
                        LeafContent(use_text,
                            Join(Contents(OfKind(frs, "Const")), <<Lit("\n")>>)),
                        <<>>)
        inl      == SelectSeq(frs, LAMBDA f : f.kind = "Mod" /\ f.some)
        nested   == [i \in 1..Len(inl) |->
                       Let(Modules_parse(inl[i].fragments, hash, depth + 1), LAMBDA sub :
                         Lib(inl[i].name, mod_text(sub), sub))]
        content  == Join(Contents(OfKind(frs, "Common")), <<Lit("\n")>>)
        res0     == <<api_resources, functions, models, consts>>
                      \o (IF content # <<>>
                          THEN <<Lib("common", LeafContent(use_text, content), <<>>)>>
                          ELSE <<>>)
                      \o nested
        tail     == SelectSeq(frs, LAMBDA f :
                        f.kind = "EntryPoint" \/ (f.kind = "Mod" /\ ~f.some))
    IN Let(res0, LAMBDA res :
         WithEntryPoint(res,
            EntryPoint(
              use_text \o mod_text(res)
                \o Join([i \in 1..Len(tail) |->
                           IF tail[i].kind = "EntryPoint" THEN tail[i].content
                           ELSE <<BareMod(tail[i].name)>>],
                        <<Lit("\n")>>)),
            depth))))

\* ------------------------------------------------------------------ Writer

File(dir, name) == [dir |-> dir, file |-> name]

RECURSIVE Module_write(_, _)
RECURSIVE Modules_write(_, _)

\* the filesystem calls of Module::write(path), in order
Module_write(m, path) ==
    IF m.kind = "EntryPoint"
    THEN <<[op |-> "write", path |-> File(path, "main"), content |-> m.content]>>
    ELSE LET mod_path == Append(path, m.name)
         IN (IF m.modules # <<>>
             THEN <<[op |-> "create_dir_all", path |-> File(mod_path, ""), content |-> <<>>]>>
             ELSE <<>>)
            \o Modules_write(m.modules, mod_path)
            \o <<[op |-> "write", path |-> File(path, m.name), content |-> m.content]>>

Modules_write(mods, path) ==
    IF mods = <<>> THEN <<>>
    ELSE Module_write(Head(mods), path) \o Modules_write(Tail(mods), path)

\* --------------------------------------------------- HashMap iteration order

RECURSIVE ModelNamesOf(_)
ModelNamesOf(frs) ==
    IF frs = <<>> THEN {}
    ELSE LET f == Head(frs)
         IN (IF f.kind = "Model" THEN {f.name} ELSE {})
              \cup (IF f.kind = "Mod" THEN ModelNamesOf(f.fragments) ELSE {})
              \cup ModelNamesOf(Tail(frs))

RECURSIVE DepthOf(_)
DepthOf(frs) ==
    IF frs = <<>> THEN 0
    ELSE LET f == Head(frs)
             here == IF f.kind = "Mod" /\ f.some THEN 1 + DepthOf(f.fragments) ELSE 0
             rest == DepthOf(Tail(frs))
         IN IF here > rest THEN here ELSE rest

Perms(S) ==
    { p \in [1..Cardinality(S) -> S] : \A i, j \in 1..Cardinality(S) : i # j => p[i] # p[j] }

\* one iteration order per depth, over the model names that occur
HashOrders(frs) == [0..DepthOf(frs) -> Perms(ModelNamesOf(frs))]

\* ------------------------------------------------------------------ main()

Root == <<>>
EntryFile == File(Root, "main")
NoInput == [text |-> <<>>, lines |-> <<>>, items |-> <<>>, valid |-> FALSE]
NoFiles == [p \in {} |-> <<>>]

\* texts syn::parse_file rejects
InvalidPrograms ==
    { [text |-> t, lines |-> <<>>, items |-> <<>>, valid |-> FALSE] :
        t \in { <<"f", "{", "n">>, <<"m", "{", "d", "e2", "n">> } }

InitFs(in, ex) ==
    IF ex THEN [p \in {EntryFile} |-> <<Src(0, ByteLen(in.text))>>] ELSE NoFiles

Put(files, path, content) ==
    [p \in DOMAIN files \cup {path} |-> IF p = path THEN content ELSE files[p]]

\* !entry_point_path.exists() (a bug: the check is skipped)
EntryPointMissing_never(ex) == FALSE

EntryPointMissing(ex) == ~ex

\* syn::parse_file(input)? (a bug: the error is swallowed)
parse_file_ok_always(in) == TRUE

parse_file_ok(in) == in.valid

\* where a failed fs call leaves the run (a bug: the error is ignored)
FsFailed_ignored(i) == [pc |-> "write", oi |-> i + 1]

FsFailed(i) == [pc |-> "exit_err", oi |-> i]

InitCommon ==
    /\ current_offset = 0
    /\ prev_offset = 0
    /\ ci = 1
    /\ panicked = FALSE
    /\ fragments = <<>>
    /\ deduped = <<>>
    /\ modules = <<>>
    /\ ops = <<>>
    /\ oi = 1
    /\ dirs = {Root}
    /\ attempts = 0
    /\ failedAt = 0
    /\ reads = 0
    /\ stderr = <<>>

Init ==
    /\ pc = "start"
    /\ exists \in BOOLEAN
    /\ input \in IF exists THEN Programs \cup InvalidPrograms ELSE {NoInput}
    /\ fs = InitFs(input, exists)
    /\ calls = <<>>
    /\ InitCommon

\* main: the entry file is absent
main_missing ==
    /\ pc = "start"
    /\ EntryPointMissing(exists)
    /\ stderr' = Append(stderr, "main.rs does not exist")
    /\ pc' = "exit_ok"
    /\ UNCHANGED <<input, exists, current_offset, prev_offset, calls, ci, panicked,
                   fragments, deduped, modules, ops, oi, fs, dirs, attempts, failedAt, reads>>

\* Code::parse: fs::read_to_string(path)?
Code_parse_read ==
    /\ pc = "start"
    /\ ~EntryPointMissing(exists)
    /\ reads' = reads + 1
    /\ \/ exists /\ pc' = "parse"
       \/ pc' = "exit_err"
    /\ UNCHANGED <<input, exists, current_offset, prev_offset, calls, ci, panicked,
                   fragments, deduped, modules, ops, oi, fs, dirs, attempts, failedAt, stderr>>

\* Code::parse: Vec::<Fragment>::parse(&content)? fails in syn::parse_file
Code_parse_error ==
    /\ pc = "parse"
    /\ ~parse_file_ok(input)
    /\ pc' = "exit_err"
    /\ UNCHANGED <<input, exists, current_offset, prev_offset, calls, ci, panicked,
                   fragments, deduped, modules, ops, oi, fs, dirs, attempts, failedAt,
                   reads, stderr>>

\* Code::parse: the fragments and the module tree are built
Code_parse_build ==
    /\ pc = "parse"
    /\ parse_file_ok(input)
    /\ \E r \in {Fragments_parse(input)} :
          /\ fragments' = r.fragments
          /\ current_offset' = r.ctx.cur
          /\ panicked' = r.ctx.panicked
          /\ IF r.ctx.panicked
             THEN /\ pc' = "exit_err"
                  /\ UNCHANGED <<deduped, modules, ops>>
             ELSE \E hash \in HashOrders(r.fragments) :
                    \E mods \in {Modules_parse(r.fragments, hash, 0)} :
                       /\ deduped' = dedup_fragments(r.fragments, hash[0])
                       /\ modules' = mods
                       /\ ops' = Modules_write(mods, Root)
                       /\ pc' = "write"
    /\ UNCHANGED <<input, exists, prev_offset, calls, ci, oi, fs, dirs, attempts,
                   failedAt, reads, stderr>>

\* Code::write: one fs::create_dir_all or fs::write succeeds
fs_call_ok ==
    /\ pc = "write"
    /\ oi <= Len(ops)
    /\ attempts' = attempts + 1
    /\ IF ops[oi].op = "write"
       THEN fs' = Put(fs, ops[oi].path, ops[oi].content) /\ UNCHANGED dirs
       ELSE dirs' = dirs \cup {ops[oi].path.dir} /\ UNCHANGED fs
    /\ oi' = oi + 1
    /\ UNCHANGED <<pc, input, exists, current_offset, prev_offset, calls, ci, panicked,
                   fragments, deduped, modules, ops, failedAt, reads, stderr>>

\* Code::write: one fs::create_dir_all or fs::write fails
fs_call_error ==
    /\ pc = "write"
    /\ oi <= Len(ops)
    /\ attempts' = attempts + 1
    /\ failedAt' = IF failedAt = 0 THEN oi ELSE failedAt
    /\ pc' = FsFailed(oi).pc
    /\ oi' = FsFailed(oi).oi
    /\ UNCHANGED <<input, exists, current_offset, prev_offset, calls, ci, panicked,
                   fragments, deduped, modules, ops, fs, dirs, reads, stderr>>

\* main returns Ok(()) after the last write
main_return ==
    /\ pc = "write"
    /\ oi > Len(ops)
    /\ pc' = "exit_ok"
    /\ UNCHANGED <<input, exists, current_offset, prev_offset, calls, ci, panicked,
                   fragments, deduped, modules, ops, oi, fs, dirs, attempts, failedAt,
                   reads, stderr>>

Next ==
    \/ main_missing
    \/ Code_parse_read
    \/ Code_parse_error
    \/ Code_parse_build
    \/ fs_call_ok
    \/ fs_call_error
    \/ main_return

Spec == Init /\ [][Next]_vars

\* ------------------------------------------- the classifier, call by call

InitClassify ==
    /\ pc = "classify"
    /\ exists = TRUE
    /\ input \in Programs
    /\ fs = InitFs(input, exists)
    /\ calls = Fragments_parse(input).ctx.calls
    /\ InitCommon

\* ParseContext::text_between(offset)
ctx_text_between ==
    /\ pc = "classify"
    /\ ci <= Len(calls)
    /\ calls[ci].op = "text_between"
    /\ prev_offset' = current_offset
    /\ panicked' = (current_offset > calls[ci].offset)
    /\ pc' = IF current_offset > calls[ci].offset THEN "exit_err" ELSE pc
    /\ ci' = ci + 1
    /\ UNCHANGED <<input, exists, current_offset, calls, fragments, deduped, modules, ops,
                   oi, fs, dirs, attempts, failedAt, reads, stderr>>

\* ParseContext::update_offset(offset)
ctx_update_offset ==
    /\ pc = "classify"
    /\ ci <= Len(calls)
    /\ calls[ci].op = "update_offset"
    /\ prev_offset' = current_offset
    /\ current_offset' = calls[ci].offset
    /\ ci' = ci + 1
    /\ UNCHANGED <<pc, input, exists, calls, panicked, fragments, deduped, modules, ops,
                   oi, fs, dirs, attempts, failedAt, reads, stderr>>

\* Vec<Fragment>::parse returns Ok(fragments)
Fragments_parsed ==
    /\ pc = "classify"
    /\ ci > Len(calls)
    /\ fragments' = Fragments_parse(input).fragments
    /\ pc' = "classified"
    /\ UNCHANGED <<input, exists, current_offset, prev_offset, calls, ci, panicked,
                   deduped, modules, ops, oi, fs, dirs, attempts, failedAt, reads, stderr>>

NextClassify == ctx_text_between \/ ctx_update_offset \/ Fragments_parsed

SpecClassify == InitClassify /\ [][NextClassify]_vars

\* --------------------------------- the deduplicator and the builder, applied

Item(id) == <<Tok("item", id, id + 1)>>

FragAlphabet ==
    { Frag("Model", "user", Item(1)), Frag("Model", "user", Item(2)),
      Frag("Model", "role", Item(3)), Frag("Function", "f", Item(4)),
      Frag("Use", "", Item(5)),
      FragMod("m", TRUE, << Frag("Model", "user", Item(6)), Frag("Model", "role", Item(7)),
                            Frag("Model", "user", Item(8)) >>),
      FragMod("n", TRUE, << FragMod("k", TRUE, << Frag("Model", "role", Item(9)),
                                                  Frag("Model", "role", Item(10)) >>) >>) }

InitDedup ==
    /\ pc = "fragments"
    /\ exists = TRUE
    /\ input = NoInput
    /\ fs = NoFiles
    /\ calls = <<>>
    /\ current_offset = 0
    /\ prev_offset = 0
    /\ ci = 1
    /\ panicked = FALSE
    /\ fragments \in SeqsUpTo(FragAlphabet, MaxFrags) \ {<<>>}
    /\ deduped = <<>>
    /\ modules = <<>>
    /\ ops = <<>>
    /\ oi = 1
    /\ dirs = {Root}
    /\ attempts = 0
    /\ failedAt = 0
    /\ reads = 0
    /\ stderr = <<>>

\* fragments.dedup_fragments()
apply_dedup_fragments ==
    /\ pc = "fragments"
    /\ \E order \in Perms(ModelNamesOf(fragments)) :
          deduped' = dedup_fragments(fragments, order)
    /\ pc' = "deduped"
    /\ UNCHANGED <<input, exists, current_offset, prev_offset, calls, ci, panicked,
                   fragments, modules, ops, oi, fs, dirs, attempts, failedAt, reads, stderr>>

\* Vec::<Module>::parse(fragments)
apply_Modules_parse ==
    /\ pc = "deduped"
    /\ \E hash \in HashOrders(fragments) :
          modules' = Modules_parse(fragments, hash, 0)
    /\ pc' = "built"
    /\ UNCHANGED <<input, exists, current_offset, prev_offset, calls, ci, panicked,
                   fragments, deduped, ops, oi, fs, dirs, attempts, failedAt, reads, stderr>>

NextDedup == apply_dedup_fragments \/ apply_Modules_parse

SpecDedup == InitDedup /\ [][NextDedup]_vars

\* ------------------------------------------------------ vocabulary of claims

\* the byte offset of character boundary p
BytePos(text, p) == p + Cardinality({ i \in 1..p : text[i] = "e2" })

RECURSIVE AllNodes(_)
AllNodes(items) ==
    IF items = <<>> THEN {}
    ELSE {Head(items)} \cup AllNodes(Head(items).items) \cup AllNodes(Tail(items))

RECURSIVE AllFragments(_)
AllFragments(frs) ==
    IF frs = <<>> THEN {}
    ELSE {Head(frs)} \cup AllFragments(Head(frs).fragments) \cup AllFragments(Tail(frs))

HasPrefix(c, pre) == Len(c) >= Len(pre) /\ SubSeq(c, 1, Len(pre)) = pre

FnKinds == {"EntryPoint", "Function", "ApiResource"}

\* the tokens by which a declaration is recognised in a file
DeclTok(text, n) ==
    IF n.kind = "Fn"
    THEN Tok("sig", BytePos(text, n.start), BytePos(text, n.open) - 1)
    ELSE Tok("item_pub", BytePos(text, n.start), BytePos(text, n.end))

\* ----------------------------------------------------------------------- C1

RECURSIVE ModelsUnique(_)
ModelsUnique(mods) ==
    /\ mods[3].name = "models"
    /\ \A i, j \in DOMAIN mods[3].modules :
          i # j => mods[3].modules[i].name # mods[3].modules[j].name
    /\ \A i \in 5..Len(mods) :
          (mods[i].kind = "Lib" /\ mods[i].modules # <<>>) => ModelsUnique(mods[i].modules)

\* C1: at every namespace level the module list built by Vec<Module>::parse
\* holds no two modules of the same name under the `models` aggregator
C1_ModelModulesUnique == pc = "built" => ModelsUnique(modules)

C1_Witness ==
    /\ pc = "built"
    /\ \E i, j \in DOMAIN fragments :
          /\ i < j
          /\ fragments[i].kind = "Model" /\ fragments[j].kind = "Model"
          /\ fragments[i].name = fragments[j].name
    /\ \E k \in DOMAIN fragments :
          /\ fragments[k].kind = "Mod"
          /\ Len(OfKind(fragments[k].fragments, "Model")) > 1
    /\ Len(modules[3].modules) = 1

\* ----------------------------------------------------------------------- C2

\* the contents of the Model fragments named n, in input order, separated by
\* a line break
RECURSIVE ExpectedMerge(_, _, _)
ExpectedMerge(frs, n, first) ==
    IF frs = <<>> THEN <<>>
    ELSE IF Head(frs).kind = "Model" /\ Head(frs).name = n
         THEN (IF first THEN <<>> ELSE <<Lit("\n")>>) \o Head(frs).content
                \o ExpectedMerge(Tail(frs), n, FALSE)
         ELSE ExpectedMerge(Tail(frs), n, first)

\* C2: dedup_fragments emits, for every model name of its input, exactly one
\* Model fragment, whose content is the contents of the input's Model
\* fragments of that name in input order, joined by a line break
C2_MergedInInputOrder ==
    pc \in {"deduped", "built"} =>
      \A n \in { f.name : f \in { g \in Range(fragments) : g.kind = "Model" } } :
         LET hits == { i \in DOMAIN deduped :
                          deduped[i].kind = "Model" /\ deduped[i].name = n }
         IN /\ Cardinality(hits) = 1
            /\ \A i \in hits : deduped[i].content = ExpectedMerge(fragments, n, TRUE)

C2_Witness ==
    /\ pc = "deduped"
    /\ \E i, j, k \in DOMAIN fragments :
          /\ i < j /\ j < k
          /\ fragments[i].kind = "Model" /\ fragments[j].kind = "Model"
          /\ fragments[k].kind = "Model"
          /\ fragments[i].name = fragments[k].name
          /\ fragments[i].name # fragments[j].name
          /\ fragments[i].content # fragments[k].content

\* ----------------------------------------------------------------------- C3

RECURSIVE NestedHasNoEntryPoint(_)
NestedHasNoEntryPoint(mods) ==
    \A i \in DOMAIN mods :
       mods[i].kind = "Lib" =>
         /\ \A k \in DOMAIN mods[i].modules : mods[i].modules[k].kind # "EntryPoint"
         /\ NestedHasNoEntryPoint(mods[i].modules)

\* C3: no module list below the outermost level holds an EntryPoint, and
\* main.rs is written at the destination root only
C3_EntryPointOnlyAtRoot ==
    /\ NestedHasNoEntryPoint(modules)
    /\ \A p \in DOMAIN fs : p.file = "main" => p.dir = Root

\* ----------------------------------------------------------------------- C4

DeclKinds == {"Fn"} \cup ModelKinds

FilesHolding(t) == { p \in DOMAIN fs : t \in Range(fs[p]) }

\* C4: after a successful run the text of every function and type
\* declaration of the input is in exactly one file of the output tree
C4_EveryDeclarationInOneFile ==
    (pc = "exit_ok" /\ attempts > 0) =>
      \A n \in AllNodes(input.items) :
         n.kind \in DeclKinds => Cardinality(FilesHolding(DeclTok(input.text, n))) = 1

\* ----------------------------------------------------------------------- C5

\* the content the calls before call i left at path p
RECURSIVE LastWritten(_, _)
LastWritten(i, p) ==
    IF i <= 0 THEN InitFs(input, exists)[p]
    ELSE IF ops[i].op = "write" /\ ops[i].path = p THEN ops[i].content
    ELSE LastWritten(i - 1, p)

\* C5: once a filesystem call of the Writer fails no further call is
\* attempted, the run ends with an error, and what was written before the
\* failure stays as written
C5_AbortOnFsError ==
    failedAt # 0 =>
      /\ pc = "exit_err"
      /\ attempts = failedAt
      /\ oi = failedAt
      /\ \A i \in 1..(failedAt - 1) :
            IF ops[i].op = "write"
            THEN /\ ops[i].path \in DOMAIN fs
                 /\ fs[ops[i].path] = LastWritten(failedAt - 1, ops[i].path)
            ELSE ops[i].path.dir \in dirs
      /\ \A p \in DOMAIN fs :
            p = EntryFile \/ \E i \in 1..(failedAt - 1) : ops[i].op = "write" /\ ops[i].path = p

C5_Witness ==
    /\ pc = "exit_err"
    /\ failedAt > 3
    /\ \E i \in 1..(failedAt - 1) : ops[i].op = "write" /\ ops[i].path.dir # Root
    /\ failedAt < Len(ops)

\* ----------------------------------------------------------------------- C6

Untouched ==
    /\ attempts = 0
    /\ fs = InitFs(input, exists)
    /\ dirs = {Root}

\* C6: a run whose read or parse fails ends with an error and touches
\* nothing; a filesystem write or directory creation happens only once the
\* entry file was read, parsed and the module tree built
C6_NothingWrittenUnlessParsed ==
    /\ (pc = "exit_err" /\ failedAt = 0) => Untouched
    /\ (reads > 0 /\ ~input.valid /\ pc # "parse") => (pc = "exit_err" /\ Untouched)
    /\ ~Untouched =>
          /\ reads = 1
          /\ input.valid
          /\ modules # <<>>
          /\ ops = Modules_write(modules, Root)
          /\ pc \in {"write", "exit_ok", "exit_err"}

C6_Witness ==
    /\ pc = "exit_err"
    /\ exists
    /\ reads = 1
    /\ ~input.valid
    /\ input.text # <<>>

\* ----------------------------------------------------------------------- C7

\* C7: with src/main.rs absent the run reads nothing, parses nothing,
\* changes nothing on disk, prints the diagnostic and ends with success
C7_MissingEntryIsNoOp ==
    (~exists /\ pc # "start") =>
      /\ pc = "exit_ok"
      /\ reads = 0
      /\ fragments = <<>> /\ modules = <<>>
      /\ attempts = 0
      /\ fs = NoFiles
      /\ dirs = {Root}
      /\ stderr = <<"main.rs does not exist">>

C7_Witness == ~exists /\ pc = "exit_ok" /\ Len(stderr) = 1

\* ----------------------------------------------------------------------- C8

\* the level's import block followed by `use crate::*;`
LevelImports(frs) ==
    Join(Contents(OfKind(frs, "Use")), <<Lit("\n")>>) \o <<Lit("\nuse crate::*;")>>

InlineMods(frs) == SelectSeq(frs, LAMBDA f : f.kind = "Mod" /\ f.some)

\* index of the k-th nested-namespace module in the module list of a level
NestedAt(frs, mods, k) == Len(mods) - 1 - Len(InlineMods(frs)) + k

RECURSIVE EveryLibPrefixed(_, _)
EveryLibPrefixed(frs, mods) ==
    /\ \A i \in DOMAIN mods :
          mods[i].kind = "Lib" =>
            /\ HasPrefix(mods[i].content, LevelImports(frs))
            /\ i <= 3 => \A c \in DOMAIN mods[i].modules :
                            HasPrefix(mods[i].modules[c].content, LevelImports(frs))
    /\ \A k \in DOMAIN InlineMods(frs) :
          EveryLibPrefixed(InlineMods(frs)[k].fragments,
                           mods[NestedAt(frs, mods, k)].modules)

\* C8 as stated: every Lib module generated at a level, aggregators and
\* nested-namespace modules included, begins with the level's import block
\* followed by `use crate::*;`
C8_EveryLibHasImports == modules # <<>> => EveryLibPrefixed(fragments, modules)

RECURSIVE LeavesPrefixed(_, _)
LeavesPrefixed(frs, mods) ==
    /\ \A i \in 1..3 :
          /\ mods[i].content = mod_text(mods[i].modules)
          /\ ~HasPrefix(mods[i].content, LevelImports(frs))
          /\ \A c \in DOMAIN mods[i].modules :
                HasPrefix(mods[i].modules[c].content, LevelImports(frs))
    /\ mods[4].name = "consts" /\ HasPrefix(mods[4].content, LevelImports(frs))
    /\ OfKind(frs, "Common") # <<>> =>
          mods[5].name = "common" /\ HasPrefix(mods[5].content, LevelImports(frs))
    /\ \A k \in DOMAIN InlineMods(frs) :
          LET m == mods[NestedAt(frs, mods, k)]
          IN /\ m.name = InlineMods(frs)[k].name
             /\ m.content = mod_text(m.modules)
             /\ LeavesPrefixed(InlineMods(frs)[k].fragments, m.modules)

\* C8 amended: the per-function, per-handler and per-model modules, `consts`
\* and `common` begin with the level's import block followed by
\* `use crate::*;`; the three aggregators and the nested-namespace modules
\* hold their re-export lines only
C8_LeafModulesHaveImports == modules # <<>> => LeavesPrefixed(fragments, modules)

C8_Witness ==
    /\ pc = "write"
    /\ \E i, j \in DOMAIN fragments :
          /\ fragments[i].kind = "Use"
          /\ fragments[j].kind = "Mod" /\ fragments[j].some
          /\ OfKind(fragments[j].fragments, "Use") # <<>>
          /\ InlineMods(fragments[j].fragments) # <<>>
    /\ Len(modules[1].content) = 0

\* ----------------------------------------------------------------------- C9

\* the slices a function fragment holds after its leading comment
BodySlices(f) == { k \in 2..Len(f.content) : f.content[k].k = "src" }

StmtTriviaKept(text, n, f) ==
    \A j \in DOMAIN n.stmts :
       LET from == IF j = 1 THEN BytePos(text, n.open)
                   ELSE BytePos(text, n.stmts[j - 1].end)
           to   == BytePos(text, n.stmts[j].start)
       IN \E k \in 1..(Len(f.content) - 1) :
             /\ f.content[k] = Src(from, to)
             /\ f.content[k + 1] = Tok("stmt", to, BytePos(text, n.stmts[j].end))

C10_CursorMonotone ==
    /\ ~panicked
    /\ prev_offset <= current_offset
    /\ (pc = "classify" /\ ci <= Len(calls) /\ calls[ci].op = "text_between")
          => current_offset <= calls[ci].offset

C10_Witness ==
    /\ pc = "classified"
    /\ \E i \in DOMAIN input.items :
          /\ input.items[i].kind = "Mod" /\ input.items[i].inline
          /\ \E m \in AllNodes(input.items[i].items) : m.kind = "Fn" /\ m.stmts # <<>>
    /\ \E i \in DOMAIN input.items : input.items[i].kind = "Fn" /\ input.items[i].stmts # <<>>
    /\ current_offset = BytePos(input.text, input.items[Len(input.items)].end)

====
